---- MODULE Spec2Model ----
(***************************************************************************)
(* The daily-puzzle endpoint of vercel_darkword_backend.                   *)
(*                                                                         *)
(* src/pages/api/handler.ts holds three handler variants and               *)
(* src/unnamed/part_000 a fourth.  A deployment runs exactly one of them:  *)
(*   "memB"  handler.ts:1-110    memory cache, {theme, words[], clues{}}   *)
(*   "blob"  handler.ts:112-222  blob storage, no memory cache             *)
(*   "memA"  handler.ts:224-301  memory cache, {theme, words[{word,clue}]} *)
(*   "memA2" part_000:1-80       as memA, with CORS / OPTIONS handling     *)
(* Each request is an async function: its awaits (list, fetch, the         *)
(* generation call, put) are the points where requests interleave; the     *)
(* code between two awaits runs as one step.  req[r] is a request in       *)
(* flight, res the response most recently sent.  probe holds an input and  *)
(* the result of a pure step of the handler applied to it (PureSpec).      *)
(***************************************************************************)
EXTENDS Integers, Sequences, FiniteSets, TLC

VARIABLES variant, clock, cachedResponse, lastFetched, blobs, req, res, probe

vars == <<variant, clock, cachedResponse, lastFetched, blobs, req, res, probe>>

(* ------------------------------ bounds -------------------------------- *)
NumReq == 2
MaxClock == 2
TicksPerDay == 2
\* the server's time zone, in ticks ahead of UTC
TZOffset == 1
\* the longest word list of a puzzle handed to a pure step
MaxWords == 2

Requests == 1..NumReq

(* ------------------------------ values -------------------------------- *)
Variants == {"memB", "blob", "memA", "memA2"}
MemoryVariants == {"memB", "memA", "memA2"}

NoDate == -1
NoPuzzle == [isNull |-> TRUE]

\* the case mapping mutated: String.prototype.toLowerCase
toLowerCase(w) ==
    CASE w = "ORBIT" -> "orbit"
      [] w = "COMET" -> "comet"
      [] w = "NOVA" -> "nova"
      [] OTHER -> w

\* String.prototype.toUpperCase on the words the model draws from
toUpperCase(w) ==
    CASE w = "orbit" -> "ORBIT"
      [] w = "comet" -> "COMET"
      [] w = "nova" -> "NOVA"
      [] OTHER -> w

\* the date key mutated: the month alone is compared (31 days a month)
toMonthString(t) == (t + TZOffset) \div (31 * TicksPerDay)

\* Date.prototype.toDateString: the calendar date in the server's time zone
toDateString(t) == (t + TZOffset) \div TicksPerDay

\* Date.prototype.toISOString().slice(0, 10): the calendar date in UTC
toISODate(t) == t \div TicksPerDay

\* `puzzle/${today}/puzzle.json`: one path per day
puzzlePath(today) == today

(* --------------------- JSON values and raw text ------------------------ *)
\* an entry of a parsed "words" array: a string, or an object {word, clue}
Str(s) == [isObj |-> FALSE, word |-> s, clue |-> ""]
Obj(w, c) == [isObj |-> TRUE, word |-> w, clue |-> c]

\* a parsed JSON object; words and clues may be absent
Doc(theme, hasWords, words, hasClues, clues) ==
    [theme |-> theme, hasWords |-> hasWords, words |-> words,
     hasClues |-> hasClues, clues |-> clues]

\* raw text is a sequence of tokens
Fence == [t |-> "fence"]
FenceJson == [t |-> "fencejson"]
Ws == [t |-> "ws"]
Junk == [t |-> "junk"]
DocTok(d) == [t |-> "doc", doc |-> d]

RECURSIVE SelectNot(_, _)
SelectNot(s, tok) ==
    IF s = <<>> THEN <<>>
    ELSE IF Head(s) = tok THEN SelectNot(Tail(s), tok)
         ELSE <<Head(s)>> \o SelectNot(Tail(s), tok)

RECURSIVE TrimLeft(_)
TrimLeft(s) ==
    IF s # <<>> /\ Head(s) = Ws THEN TrimLeft(Tail(s)) ELSE s

RECURSIVE TrimRight(_)
TrimRight(s) ==
    IF s # <<>> /\ s[Len(s)] = Ws THEN TrimRight(SubSeq(s, 1, Len(s) - 1)) ELSE s

trim(s) == TrimRight(TrimLeft(s))

\* replace(/```json/g, ""), replace(/```/g, ""), trim()
sanitizeJSON(response) == trim(SelectNot(SelectNot(response, FenceJson), Fence))

Thrown == [ok |-> FALSE]
Ok(v) == [ok |-> TRUE, val |-> v]

\* JSON.parse: surrounding whitespace is allowed, anything else but one
\* well-formed document throws SyntaxError
JSONparse(text) ==
    LET body == trim(text)
    IN  IF Len(body) = 1 /\ body[1].t = "doc" THEN Ok(body[1].doc) ELSE Thrown

\* JSON.stringify of a puzzle record
JSONstringify(p) == <<DocTok(p)>>

\* index of key k in a sequence of <<key, value>> entries, 0 when absent
RECURSIVE IndexOfKey(_, _)
IndexOfKey(es, k) ==
    IF es = <<>> THEN 0
    ELSE IF es[Len(es)][1] = k /\ IndexOfKey(SubSeq(es, 1, Len(es) - 1), k) = 0
         THEN Len(es)
         ELSE IndexOfKey(SubSeq(es, 1, Len(es) - 1), k)

\* Assigning entries to an object in order: a key keeps the place of its
\* first assignment and the value of its last (Object.fromEntries, acc[k] = v)
RECURSIVE fromEntries(_)
fromEntries(es) ==
    IF es = <<>> THEN <<>>
    ELSE LET init == fromEntries(SubSeq(es, 1, Len(es) - 1))
             e == es[Len(es)]
             i == IndexOfKey(init, e[1])
         IN  IF i = 0 THEN Append(init, e) ELSE [init EXCEPT ![i] = e]

\* words.map((word) => word.toUpperCase())
RECURSIVE UpperWords(_)
UpperWords(s) ==
    IF s = <<>> THEN <<>>
    ELSE <<Str(toUpperCase(Head(s).word))>> \o UpperWords(Tail(s))

\* Object.entries(clues).map(([word, clue]) => [word.toUpperCase(), clue])
RECURSIVE UpperKeys(_)
UpperKeys(es) ==
    IF es = <<>> THEN <<>>
    ELSE <<<<toUpperCase(Head(es)[1]), Head(es)[2]>>>> \o UpperKeys(Tail(es))

\* words.map((entry) => entry.word)
RECURSIVE WordsOf(_)
WordsOf(s) ==
    IF s = <<>> THEN <<>> ELSE <<Str(Head(s).word)>> \o WordsOf(Tail(s))

\* the assignments of the reduce: acc[entry.word.toUpperCase()] = entry.clue
RECURSIVE ClueEntries(_)
ClueEntries(s) ==
    IF s = <<>> THEN <<>>
    ELSE <<<<toUpperCase(Head(s).word), Head(s).clue>>>> \o ClueEntries(Tail(s))

AnyObj(s) == \E i \in 1..Len(s) : s[i].isObj
AnyStr(s) == \E i \in 1..Len(s) : ~s[i].isObj

\* handler.ts:91-99 and 198-204: words.map(toUpperCase), clues keys uppercased.
\* undefined.map, (object).toUpperCase and Object.entries(undefined) throw.
formatB(parsedResult) ==
    IF ~parsedResult.hasWords \/ AnyObj(parsedResult.words) \/ ~parsedResult.hasClues
    THEN Thrown
    ELSE Ok(Doc(parsedResult.theme, TRUE,
                UpperWords(parsedResult.words),
                TRUE, fromEntries(UpperKeys(parsedResult.clues))))

\* handler.ts:283-293 and part_000:62-72: words.map(entry => entry.word),
\* clues reduced from the entries; (undefined).toUpperCase throws.
formatA(rawResult) ==
    IF ~rawResult.hasWords \/ AnyStr(rawResult.words)
    THEN Thrown
    ELSE Ok(Doc(rawResult.theme, TRUE,
                WordsOf(rawResult.words),
                TRUE, fromEntries(ClueEntries(rawResult.words))))

(* ------------------- what the generation service says ------------------ *)
DocB == Doc("Space", TRUE, <<Str("orbit"), Str("comet")>>,
            TRUE, <<<<"ORBIT", "c1">>, <<"COMET", "c2">>>>)
\* "orbit" twice, "comet" without a clue, a clue for "nova" which is no word
DocBLoose == Doc("Sea", TRUE, <<Str("orbit"), Str("ORBIT"), Str("comet")>>,
                 TRUE, <<<<"orbit", "c1">>, <<"nova", "c3">>>>)
DocA == Doc("Space", TRUE, <<Obj("orbit", "c1"), Obj("comet", "c2")>>, FALSE, <<>>)
DocA2 == Doc("Sea", TRUE, <<Obj("COMET", "c2")>>, FALSE, <<>>)

\* message.content when it is a string ("" is <<>>)
Contents ==
    { <<DocTok(DocB)>>, <<FenceJson, Ws, DocTok(DocB), Ws, Fence>>,
      <<DocTok(DocBLoose)>>, <<DocTok(DocA)>>, <<Ws, DocTok(DocA2), Ws>>,
      <<Junk>>, <<>> }

\* the completion: the call rejects, or resolves with or without content
Completions ==
    {[threw |-> TRUE, hasContent |-> FALSE, content |-> <<>>],
     [threw |-> FALSE, hasContent |-> FALSE, content |-> <<>>]}
    \cup {[threw |-> FALSE, hasContent |-> TRUE, content |-> c] : c \in Contents}

(* ------------------------------ requests ------------------------------ *)
Methods == {"GET", "OPTIONS"}

NoBody == [kind |-> "none"]
JsonBody(v) == [kind |-> "json", val |-> v]
ErrorBody(e, d) == [kind |-> "error", error |-> e, hasDetails |-> d]

\* what the request's generation call came back with
Got(c) ==
    IF c.threw THEN "threw"
    ELSE IF ~c.hasContent THEN "noContent"
    ELSE IF c.content = <<>> THEN "empty"
    ELSE "text"

\* A request keeps the locals that are read after its first await: now in the
\* memory variants (lastFetched = now), puzzlePath in the blob variant (now is
\* not read again after handler.ts:139).  gen, list, fetch, put and memw count
\* its generation calls, store listings, store reads, store writes and
\* memory-tier assignments; got is what its generation call came back with.
IdleReq ==
    [pc |-> "idle", method |-> "GET", now |-> 0, puzzlePath |-> 0,
     pending |-> NoPuzzle, got |-> "none",
     gen |-> 0, list |-> 0, fetch |-> 0, put |-> 0, memw |-> 0]

NoRes ==
    [route |-> "none", status |-> 0, body |-> NoBody, method |-> "GET",
     got |-> "none", gen |-> 0, list |-> 0, fetch |-> 0, put |-> 0, memw |-> 0]

\* res.status(status).json(body) / .end() for the request q, by the return
\* statement or catch block named route
Sent(q, route, status, body) ==
    [route |-> route, status |-> status, body |-> body, method |-> q.method,
     got |-> q.got, gen |-> q.gen, list |-> q.list, fetch |-> q.fetch,
     put |-> q.put, memw |-> q.memw]

\* the body the catch blocks send: handler.ts:108, 220, 299; part_000:78
CatchBody ==
    IF variant = "memA" THEN ErrorBody("Error generating crossword puzzle", FALSE)
    ELSE ErrorBody("Internal Server Error", TRUE)

\* the catch block mutated: the memory tier is cleared on an error
CatchClearing(r, q, route) ==
    /\ res' = Sent(q, route, 500, CatchBody)
    /\ req' = [req EXCEPT ![r] = IdleReq]
    /\ cachedResponse' = NoPuzzle
    /\ lastFetched' = NoDate
    /\ UNCHANGED blobs

\* the catch block mutated: a failed generation is tried once more
CatchRetrying(r, q, route) ==
    IF q.pc = "generating" /\ q.gen < 2
    THEN /\ req' = [req EXCEPT ![r] = [q EXCEPT !.gen = @ + 1, !.got = "none"]]
         /\ UNCHANGED <<cachedResponse, lastFetched, blobs, res>>
    ELSE /\ res' = Sent(q, route, 500, CatchBody)
         /\ req' = [req EXCEPT ![r] = IdleReq]
         /\ UNCHANGED <<cachedResponse, lastFetched, blobs>>

\* a throw inside the try block of request r (in state q) lands in the catch
\* block, which logs and answers 500: handler.ts:106-109, 218-221, 297-300
Catch(r, q, route) ==
    /\ res' = Sent(q, route, 500, CatchBody)
    /\ req' = [req EXCEPT ![r] = IdleReq]
    /\ UNCHANGED <<cachedResponse, lastFetched, blobs>>

\* the hit check mutated: the timestamps are compared, not their dates
MemoryHitSameInstant(now) ==
    /\ cachedResponse # NoPuzzle
    /\ lastFetched # NoDate
    /\ now = lastFetched

\* cachedResponse && lastFetched && now.toDateString() === lastFetched.toDateString()
MemoryHit(now) ==
    /\ cachedResponse # NoPuzzle
    /\ lastFetched # NoDate
    /\ toDateString(now) = toDateString(lastFetched)

NoProbe == [kind |-> "none"]

HandlesOptions == variant \in {"memB", "blob", "memA2"}

Init ==
    /\ variant \in Variants
    /\ clock = 0
    /\ cachedResponse = NoPuzzle
    /\ lastFetched = NoDate
    /\ blobs = <<>>
    /\ req = [r \in Requests |-> IdleReq]
    /\ res = NoRes
    /\ probe = NoProbe

\* time passes
Tick ==
    /\ clock < MaxClock
    /\ clock' = clock + 1
    /\ UNCHANGED <<probe, variant, cachedResponse, lastFetched, blobs, req, res>>

\* a request arrives and runs to its first await or to its response
Start(r, m) ==
    /\ req[r].pc = "idle"
    /\ LET now == clock
           today == toISODate(now)
           q == IF variant = "blob"
                THEN [IdleReq EXCEPT !.method = m, !.puzzlePath = puzzlePath(today)]
                ELSE [IdleReq EXCEPT !.method = m, !.now = now]
       IN  IF HandlesOptions /\ m = "OPTIONS"
           THEN /\ res' = Sent(q, "options", 200, NoBody)
                /\ UNCHANGED req
           ELSE IF variant = "blob"
           THEN /\ req' = [req EXCEPT ![r] = [q EXCEPT !.pc = "listing", !.list = 1]]
                /\ UNCHANGED res
           ELSE IF MemoryHit(now)
           THEN /\ res' = Sent(q, "memory", 200, JsonBody(cachedResponse))
                /\ UNCHANGED req
           ELSE /\ req' = [req EXCEPT ![r] = [q EXCEPT !.pc = "generating", !.gen = 1]]
                /\ UNCHANGED res
    /\ UNCHANGED <<probe, variant, clock, cachedResponse, lastFetched, blobs>>

\* the lookup mutated: the pathname is compared with the prefix, never equal
FindNever(path) == FALSE

\* existing.blobs.find(blob => blob.pathname === puzzlePath)
Find(path) == path \in DOMAIN blobs

\* the listing mutated: a failed listing falls back to generating
ListReturnRegenerating(r, ok) ==
    /\ variant = "blob"
    /\ req[r].pc = "listing"
    /\ IF ok /\ Find(req[r].puzzlePath)
       THEN req' = [req EXCEPT ![r].pc = "fetching", ![r].fetch = @ + 1]
       ELSE req' = [req EXCEPT ![r].pc = "generating", ![r].gen = @ + 1]
    /\ UNCHANGED <<probe, variant, clock, cachedResponse, lastFetched, blobs, res>>

\* await list({ prefix }) settles
ListReturn(r, ok) ==
    /\ variant = "blob"
    /\ req[r].pc = "listing"
    /\ IF ~ok
       THEN Catch(r, req[r], "listThrew")
       ELSE IF Find(req[r].puzzlePath)
       THEN /\ req' = [req EXCEPT ![r].pc = "fetching", ![r].fetch = @ + 1]
            /\ UNCHANGED <<cachedResponse, lastFetched, blobs, res>>
       ELSE /\ req' = [req EXCEPT ![r].pc = "generating", ![r].gen = @ + 1]
            /\ UNCHANGED <<cachedResponse, lastFetched, blobs, res>>
    /\ UNCHANGED <<probe, variant, clock>>

\* await fetch(existingPuzzle.url) settles, then await puzzleResponse.json()
FetchReturn(r, outcome) ==
    /\ variant = "blob"
    /\ req[r].pc = "fetching"
    /\ LET puzzleData == JSONparse(blobs[req[r].puzzlePath])
       IN  CASE outcome = "threw" -> Catch(r, req[r], "fetchThrew")
             [] outcome = "notOk" ->
                  /\ res' = Sent(req[r], "fetchNotOk", 500,
                                 ErrorBody("Failed to fetch puzzle from Blob", FALSE))
                  /\ req' = [req EXCEPT ![r] = IdleReq]
                  /\ UNCHANGED <<cachedResponse, lastFetched, blobs>>
             [] outcome = "ok" /\ puzzleData.ok ->
                  /\ res' = Sent(req[r], "durable", 200, JsonBody(puzzleData.val))
                  /\ req' = [req EXCEPT ![r] = IdleReq]
                  /\ UNCHANGED <<cachedResponse, lastFetched, blobs>>
             [] OTHER -> Catch(r, req[r], "blobParseThrew")
    /\ UNCHANGED <<probe, variant, clock>>

Failed(route) == [ok |-> FALSE, route |-> route]

\* from a completion that resolved to the formatted puzzle, or to the throw
\* that ends it: handler.ts:80-99, 194-204, 274-293; part_000:53-72
BuildFrom(c) ==
    IF variant \in {"memA", "memA2"}
    THEN IF ~c.hasContent \/ c.content = <<>> THEN Failed("noContent")
         ELSE LET rawResult == JSONparse(c.content)
              IN  IF ~rawResult.ok THEN Failed("parseThrew")
                  ELSE LET f == formatA(rawResult.val)
                       IN  IF f.ok THEN f ELSE Failed("formatThrew")
    ELSE LET rawContent == IF c.hasContent THEN c.content ELSE <<>>
             parsedResult == JSONparse(sanitizeJSON(rawContent))
         IN  IF ~parsedResult.ok THEN Failed("parseThrew")
             ELSE LET f == formatB(parsedResult.val)
                  IN  IF f.ok THEN f ELSE Failed("formatThrew")

\* the build mutated: a rejected or empty completion yields a stock puzzle
BuildWithFallback(c) ==
    IF c.threw \/ ~c.hasContent \/ c.content = <<>>
    THEN Ok(Doc("Stock", TRUE, <<Str("ORBIT")>>, TRUE, <<<<"ORBIT", "c1">>>>))
    ELSE BuildFrom(c)

\* the awaited completion: a rejection throws, a resolution is built from
Build(c) ==
    IF c.threw THEN Failed("genThrew") ELSE BuildFrom(c)

\* the stamp mutated: lastFetched = new Date(), read when the entry is stored
StampedLate(q) == clock

\* lastFetched = now: the Date the request took when it arrived
Stamped(q) == q.now

\* await openai.chat.completions.create(...) settles; the handler runs on to
\* its response (memory variants) or to its await put (blob variant)
GenReturn(r, c) ==
    /\ req[r].pc = "generating"
    /\ LET b == Build(c)
           q == [req[r] EXCEPT !.got = Got(c)]
       IN  IF ~b.ok
           THEN Catch(r, q, b.route)
           ELSE IF variant = "blob"
           THEN /\ req' = [req EXCEPT ![r] =
                              [q EXCEPT !.pc = "putting", !.pending = b.val, !.put = @ + 1]]
                /\ UNCHANGED <<cachedResponse, lastFetched, blobs, res>>
           ELSE /\ cachedResponse' = b.val
                /\ lastFetched' = Stamped(q)
                /\ res' = Sent([q EXCEPT !.memw = @ + 1], "generated", 200,
                               JsonBody(b.val))
                /\ req' = [req EXCEPT ![r] = IdleReq]
                /\ UNCHANGED blobs
    /\ UNCHANGED <<probe, variant, clock>>

\* the generation service never answers: the await never settles, and the
\* handlers pass no timeout, signal or race to bound it; the request's locals
\* are never read again
GenNeverAnswers(r) ==
    /\ req[r].pc = "generating"
    /\ req' = [req EXCEPT ![r] = [IdleReq EXCEPT !.pc = "hung", !.gen = req[r].gen,
                                                 !.list = req[r].list]]
    /\ UNCHANGED <<probe, variant, clock, cachedResponse, lastFetched, blobs, res>>

\* the store mutated: an object that exists is not replaced
WrittenOnce(path, text) ==
    IF path \in DOMAIN blobs THEN blobs
    ELSE [p \in DOMAIN blobs \cup {path} |-> IF p = path THEN text ELSE blobs[p]]

\* the put mutated: the write is started but not awaited, and is lost
WrittenNowhere(path, text) == blobs

\* the store's put: the object at the path is replaced, the last write wins
Written(path, text) ==
    [p \in DOMAIN blobs \cup {path} |-> IF p = path THEN text ELSE blobs[p]]

\* await put(puzzlePath, JSON.stringify(formattedResponse, null, 2), ...) settles
PutReturn(r, ok) ==
    /\ variant = "blob"
    /\ req[r].pc = "putting"
    /\ IF ok
       THEN /\ blobs' = Written(req[r].puzzlePath, JSONstringify(req[r].pending))
            /\ res' = Sent(req[r], "generated", 200, JsonBody(req[r].pending))
            /\ req' = [req EXCEPT ![r] = IdleReq]
            /\ UNCHANGED <<cachedResponse, lastFetched>>
       ELSE Catch(r, req[r], "putThrew")
    /\ UNCHANGED <<probe, variant, clock>>

Next ==
    \/ Tick
    \/ \E r \in Requests, m \in Methods : Start(r, m)
    \/ \E r \in Requests, ok \in BOOLEAN : ListReturn(r, ok)
    \/ \E r \in Requests, o \in {"ok", "notOk", "threw"} : FetchReturn(r, o)
    \/ \E r \in Requests, c \in Completions : GenReturn(r, c)
    \/ \E r \in Requests : GenNeverAnswers(r)
    \/ \E r \in Requests, ok \in BOOLEAN : PutReturn(r, ok)

Spec == Init /\ [][Next]_vars

\* The event loop runs a continuation once its promise has settled, and the
\* store and the generation service, when they answer at all, answer in
\* finite time.  A request in "hung" has no step left.
FairSpec ==
    /\ Spec
    /\ \A r \in Requests :
        /\ WF_vars(\E ok \in BOOLEAN : ListReturn(r, ok))
        /\ WF_vars(\E o \in {"ok", "notOk", "threw"} : FetchReturn(r, o))
        /\ WF_vars((\E c \in Completions : GenReturn(r, c)) \/ GenNeverAnswers(r))
        /\ WF_vars(\E ok \in BOOLEAN : PutReturn(r, ok))

(* ----------------------- the pure steps, alone ------------------------ *)
\* The steps of the handler that touch neither tier nor the network, applied
\* to inputs drawn from bounded sets; probe keeps the input and the results.
UpperCaseWords == {"ORBIT", "COMET", "NOVA"}
ClueTexts == {"c1", "c2"}

\* duplicate-free lists of upper-case words
WordLists ==
    UNION {{ws \in [1..n -> UpperCaseWords] :
               \A i, j \in 1..n : i # j => ws[i] # ws[j]} : n \in 0..MaxWords}

\* the clues objects whose keys are exactly the words of ws, in any order
CluesFor(ws) ==
    {es \in [1..Len(ws) -> UpperCaseWords \X ClueTexts] :
        /\ \A i, j \in 1..Len(ws) : i # j => es[i][1] # es[j][1]
        /\ \A i \in 1..Len(ws) : \E j \in 1..Len(ws) : ws[j] = es[i][1]}

\* the puzzles in the shape the handlers return and store: theme, upper-case
\* duplicate-free words, one clue per word
CanonicalPuzzles ==
    UNION {{Doc("Space", TRUE, [i \in 1..Len(ws) |-> Str(ws[i])], TRUE, es) :
               es \in CluesFor(ws)} : ws \in WordLists}

\* message.content of a completion that resolved with text
TextOf(text) == [threw |-> FALSE, hasContent |-> TRUE, content |-> text]

\* text wrapped in a markdown code fence: ```json ... ```
Fenced(text) == <<FenceJson, Ws>> \o text \o <<Ws, Fence>>

\* JSON.stringify(p) handed to the store; response.json() of the record read
\* back; the handler's own build applied to the serialized puzzle
Normalize(p) ==
    /\ probe' = [kind |-> "normalize", p |-> p,
                 reread |-> JSONparse(JSONstringify(p)),
                 out |-> BuildFrom(TextOf(JSONstringify(p)))]
    /\ UNCHANGED <<variant, clock, cachedResponse, lastFetched, blobs, req, res>>

\* the handler's build applied to a raw text and to the same text fenced
Sanitize(text) ==
    /\ probe' = [kind |-> "sanitize", raw |-> text,
                 plain |-> BuildFrom(TextOf(text)),
                 fenced |-> BuildFrom(TextOf(Fenced(text)))]
    /\ UNCHANGED <<variant, clock, cachedResponse, lastFetched, blobs, req, res>>

PureNext ==
    \/ \E p \in CanonicalPuzzles : Normalize(p)
    \/ \E text \in Contents : Sanitize(text)

PureSpec == Init /\ [][PureNext]_vars

(* ============================== claims ================================ *)
\* the calendar day of a timestamp in server-local time, restated for the claims
LocalDayOf(t) == (t + TZOffset) \div TicksPerDay

\* the memory tier holds an entry produced on the calendar day of the clock
PopulatedForToday ==
    /\ cachedResponse # NoPuzzle
    /\ lastFetched # NoDate
    /\ LocalDayOf(lastFetched) = LocalDayOf(clock)

\* this step is a request answered before its first await
AnsweredAtOnce == req' = req /\ res' # res

NoCalls(x) == x.gen = 0 /\ x.list = 0 /\ x.fetch = 0 /\ x.put = 0

\* C1: while the memory tier holds an entry for the current calendar day, no
\* arriving request goes on to a generation or store call, and a request that
\* is answered from memory gets status 200, the cached puzzle, and has issued
\* zero generation, list, fetch and put calls.
C1_MemoryHitShortCircuit ==
    [][ /\ PopulatedForToday =>
            /\ \A r \in Requests : req[r].pc = "idle" => req'[r].pc = "idle"
            /\ AnsweredAtOnce => res'.route \in {"memory", "options"}
        /\ (AnsweredAtOnce /\ res'.route = "memory") =>
            /\ PopulatedForToday
            /\ res'.status = 200
            /\ res'.body = JsonBody(cachedResponse)
            /\ NoCalls(res')
            /\ UNCHANGED <<cachedResponse, lastFetched, blobs>>
      ]_vars

C1_Witness ==
    /\ res.route = "memory"
    /\ res.method = "GET"
    /\ res.status = 200
    /\ res.body = JsonBody(cachedResponse)

GenerationFailed(r) ==
    /\ req[r].pc = "generating"
    /\ req'[r].pc = "idle"
    /\ res'.status # 200

\* C3: a request whose generation call fails, or whose output fails to parse
\* or to format, answers without having assigned the memory tier or written
\* the store, and its failing step leaves cachedResponse, lastFetched and
\* every durable record as they were.
C3_NoCacheMutationOnFailure ==
    [][ \A r \in Requests : GenerationFailed(r) =>
            /\ res'.status = 500
            /\ res'.memw = 0
            /\ res'.put = 0
            /\ UNCHANGED <<cachedResponse, lastFetched, blobs>>
      ]_vars

C3_Witness ==
    /\ res.status = 500
    /\ res.got = "text"
    /\ res.route = "parseThrew"
    /\ cachedResponse # NoPuzzle

\* C4: a request is answered from memory only when the entry was produced on
\* the request's own calendar day; on any other day it goes on to generate,
\* and when its generation succeeds the memory entry is the puzzle it built,
\* stamped with its own now.
C4_DayRollover ==
    [][ /\ (AnsweredAtOnce /\ res'.route = "memory") =>
            /\ LocalDayOf(lastFetched) = LocalDayOf(clock)
            /\ res'.body = JsonBody(cachedResponse)
        /\ \A r \in Requests :
            /\ (variant \in MemoryVariants /\ req[r].pc = "idle" /\ req'[r].pc # "idle") =>
                 /\ req'[r].pc = "generating"
                 /\ req'[r].now = clock
                 /\ ~PopulatedForToday
            /\ (variant \in MemoryVariants /\ req[r].pc = "generating"
                  /\ req'[r].pc = "idle" /\ res'.status = 200) =>
                 /\ lastFetched' = req[r].now
                 /\ res'.body = JsonBody(cachedResponse')
      ]_vars

\* a request of a later day is generating while the memory tier still holds
\* the entry of an earlier day
C4_Witness ==
    \E r \in Requests :
        /\ req[r].pc = "generating"
        /\ cachedResponse # NoPuzzle
        /\ lastFetched # NoDate
        /\ req[r].now = clock
        /\ LocalDayOf(lastFetched) < LocalDayOf(req[r].now)

C6_BestEffortPersistence ==
    res.put = 1 => (res.status = 200 /\ res.body.kind = "json")

\* C7: a request whose listing or whose read of the record fails answers 500
\* having issued no generation call and no durable write; a request leaves
\* the listing for the generation call only when no record exists, and never
\* leaves the read for anything but its response.
C7_NoSilentRegeneration ==
    [][ \A r \in Requests :
          /\ (req[r].pc = "listing" /\ req'[r].pc = "generating")
               => req[r].puzzlePath \notin DOMAIN blobs
          /\ (req[r].pc = "listing" /\ req'[r].pc = "idle")
               => (res'.status = 500 /\ res'.gen = 0 /\ res'.put = 0 /\ UNCHANGED blobs)
          /\ req[r].pc = "fetching" => req'[r].pc \in {"fetching", "idle"}
          /\ (req[r].pc = "fetching" /\ req'[r].pc = "idle" /\ res'.route # "durable")
               => (res'.status = 500 /\ res'.gen = 0 /\ res'.put = 0 /\ UNCHANGED blobs)
      ]_vars

C7_Witness ==
    /\ res.route \in {"listThrew", "fetchThrew", "fetchNotOk"}
    /\ res.status = 500
    /\ res.fetch = 1
    /\ res.gen = 0

\* the clue keys of a puzzle are exactly its words, uppercased
CluesMatchWords(p) ==
    {p.clues[i][1] : i \in 1..Len(p.clues)}
        = {toUpperCase(p.words[i].word) : i \in 1..Len(p.words)}

\* C8: every puzzle returned with status 200 or held in either cache tier has
\* clue keys equal to its uppercased words.
C8_WordsCluesInvariant ==
    /\ (res.status = 200 /\ res.body.kind = "json") => CluesMatchWords(res.body.val)
    /\ cachedResponse # NoPuzzle => CluesMatchWords(cachedResponse)
    /\ \A p \in DOMAIN blobs : CluesMatchWords(blobs[p][1].doc)

\* C9: every request that reaches its generation call eventually responds.
C9_GenerationCallBounded ==
    \A r \in Requests : (req[r].pc = "generating") ~> (req[r].pc = "idle")

\* C10: a request whose generation call threw, or came back without content
\* or with empty content, answers 500, has assigned no memory entry and
\* issued no write, and never goes on to a write.
C10_GenerationFailureIs500 ==
    /\ res.got \in {"threw", "noContent", "empty"} =>
           (res.status = 500 /\ res.memw = 0 /\ res.put = 0)
    /\ \A r \in Requests : req[r].got \in {"none", "text"}

C10_Witness ==
    /\ res.got = "noContent"
    /\ res.status = 500
    /\ res.gen = 1

\* C11 (failure response shape): every failure response, on every failure
\* path of every handler, has status 500 and a JSON body that carries both an
\* error field and a details field.
C11_FailureResponseShape ==
    (res.route # "none" /\ res.status # 200) =>
        /\ res.status = 500
        /\ res.body.kind = "error"
        /\ res.body.hasDetails

\* C12 (OPTIONS preflight): every OPTIONS request is answered 200 with no
\* body, without a generation call or a store call and with both tiers left
\* as they were; so no OPTIONS request is ever in flight past its arrival.
C12_OptionsPreflight ==
    /\ res.method = "OPTIONS" =>
           /\ res.status = 200
           /\ res.body = NoBody
           /\ NoCalls(res)
           /\ res.memw = 0
    /\ \A r \in Requests : req[r].method = "OPTIONS" => req[r].pc = "idle"

RECURSIVE KeepFirst(_)
KeepFirst(s) ==
    IF s = <<>> THEN <<>>
    ELSE LET init == KeepFirst(SubSeq(s, 1, Len(s) - 1))
         IN  IF \E i \in 1..Len(init) : init[i] = s[Len(s)]
             THEN init ELSE Append(init, s[Len(s)])

\* C14 (canonical words): for every generation output that parses and is
\* built into a puzzle, in either shape, the words of the puzzle returned
\* and cached are the words of the output upper-cased, in their order, with
\* duplicates removed.
C14_CanonicalWords ==
    (probe.kind = "sanitize" /\ probe.plain.ok) =>
        LET given == JSONparse(sanitizeJSON(probe.raw)).val.words
        IN  probe.plain.val.words =
                KeepFirst([i \in 1..Len(given) |-> Str(toUpperCase(given[i].word))])

\* C15 (sanitization): for every raw generation output, the output wrapped
\* in code-fence markers is built to the same outcome (the same puzzle, so
\* the same response and the same cached state, or the same failure) as the
\* output unwrapped.
C15_SanitizationIdempotence ==
    probe.kind = "sanitize" => probe.fenced = probe.plain

C17_WholeRecordReplacement ==
    [][ /\ (cachedResponse = NoPuzzle) <=> (lastFetched = NoDate)
        /\ (cachedResponse' = NoPuzzle) <=> (lastFetched' = NoDate)
        /\ \A r \in Requests :
             (variant # "blob" /\ req[r].pc = "generating" /\ req'[r].pc = "idle"
                /\ res'.status = 200)
             => (cachedResponse' = res'.body.val /\ lastFetched' = req[r].now)
        /\ (cachedResponse' # cachedResponse \/ lastFetched' # lastFetched)
             => \E r \in Requests :
                    /\ req[r].pc = "generating" /\ req'[r].pc = "idle"
                    /\ res'.status = 200 /\ res'.memw = 1
                    /\ cachedResponse' = res'.body.val
                    /\ lastFetched' = req[r].now
      ]_vars

\* the entry was stored by a request that arrived before the clock's last
\* tick: its stamp is its arrival time, and its puzzle the one it answered with
C17_Witness ==
    /\ res.route = "generated" /\ res.memw = 1
    /\ cachedResponse = res.body.val
    /\ lastFetched # NoDate
    /\ lastFetched < clock

\* C18 (no internal retries): every request issues at most one generation
\* call and at most one durable write, on every path: a request in flight or
\* answered has never counted a second call, a failed generation is answered
\* after exactly one call, and a failed write after exactly one write.
C18_NoInternalRetries ==
    /\ \A r \in Requests :
         /\ req[r].gen <= 1 /\ req[r].put <= 1
         /\ req[r].put = 1 => req[r].gen = 1
    /\ res.gen <= 1 /\ res.put <= 1
    /\ res.got \in {"threw", "noContent", "empty"} => (res.gen = 1 /\ res.put = 0)
    /\ res.route \in {"parseThrew", "formatThrew"} => (res.gen = 1 /\ res.put = 0)
    /\ res.route = "putThrew" => (res.gen = 1 /\ res.put = 1)

\* a write was rejected and answered 500 after one generation call and one
\* write, while another request waits for its one generation call
C18_Witness ==
    /\ res.status = 500
    /\ res.route = "putThrew"
    /\ res.gen = 1 /\ res.put = 1
    /\ \E r \in Requests : req[r].pc = "generating" /\ req[r].gen = 1

\* C19 (day key monotone under concurrency): the day key of the memory-tier
\* entry never moves backwards: a request that took its now on one day and
\* finishes after a request of a later day has stored its puzzle does not
\* replace the later day's entry.
C19_DayKeyMonotone ==
    [][ (lastFetched # NoDate /\ lastFetched' # NoDate)
          => LocalDayOf(lastFetched') >= LocalDayOf(lastFetched) ]_vars

\* a request that could still write the entry or the record of clock's day
WritingForToday(r) ==
    IF variant = "blob"
    THEN req[r].pc \in {"generating", "putting"}
         /\ req[r].puzzlePath = clock \div TicksPerDay
    ELSE req[r].pc = "generating"
         /\ LocalDayOf(req[r].now) = LocalDayOf(clock)

\* a puzzle is stored for clock's day and no request for that day is in flight
SettledForToday ==
    /\ \A r \in Requests : ~WritingForToday(r)
    /\ IF variant = "blob"
       THEN (clock \div TicksPerDay) \in DOMAIN blobs
       ELSE /\ cachedResponse # NoPuzzle
            /\ lastFetched # NoDate
            /\ LocalDayOf(lastFetched) = LocalDayOf(clock)

\* C20 (convergence to one puzzle per day): once a request for a day key has
\* succeeded and none for that key is in flight, then, while the day key
\* stays the same, the stored puzzle of that day stays the one stored and no
\* request for that key starts a generation call (every request for the key
\* is answered with the stored puzzle).
C20_ConvergenceToOnePuzzlePerDay ==
    [][ (SettledForToday
           /\ LocalDayOf(clock') = LocalDayOf(clock)
           /\ clock' \div TicksPerDay = clock \div TicksPerDay)
        => /\ \A r \in Requests :
                (req'[r].pc = "generating" /\ req'[r] # req[r])
                => IF variant = "blob"
                   THEN req'[r].puzzlePath # clock \div TicksPerDay
                   ELSE LocalDayOf(req'[r].now) # LocalDayOf(clock)
           /\ IF variant = "blob"
              THEN /\ (clock \div TicksPerDay) \in DOMAIN blobs'
                   /\ blobs'[clock \div TicksPerDay] = blobs[clock \div TicksPerDay]
              ELSE /\ cachedResponse' = cachedResponse
                   /\ LocalDayOf(lastFetched') = LocalDayOf(clock')
      ]_vars

====
